---- MODULE Spec2Model ----
(***************************************************************************)
(* State-machine model of the uH-iOS isolation nucleus (crate uh-ios):     *)
(* the VM lifecycle (vm.rs), the capability manager (capability.rs) and    *)
(* the exit dispatcher (exit.rs), all acting on one SystemState value.     *)
(* SystemState itself lives in types.rs, which is not part of the source   *)
(* tree at hand; its container operations are modelled from the written    *)
(* specification and from the way vm.rs, capability.rs and exit.rs use it. *)
(***************************************************************************)
EXTENDS Integers, Sequences, FiniteSets, TLC

\* ------------------------------------------------------------- bounds
\* Number of VMIDs the allocator hands out in one behaviour.
MaxVMs == 2
\* Number of VMIDs handed out in the single-VM specification.
SoloVMs == 1
\* Longest pending-exit queue explored (trap_vm itself has no limit).
MaxQueue == 2
\* Most memory regions mapped into one VM.
MaxRegions == 2

\* ------------------------------------------------- 64-bit arithmetic
\* A u64 is four 16-bit limbs, least significant first, so that the width
\* of `pc += 4` is kept exactly.
LimbBase == 256 * 256

U64(l0, l1, l2, l3) == <<l0, l1, l2, l3>>

U64Zero == U64(0, 0, 0, 0)

U64Max == U64(LimbBase - 1, LimbBase - 1, LimbBase - 1, LimbBase - 1)

\* a + small as the mathematical integer would be, limb by limb:
\* [val |-> the sum modulo 2^64, overflow |-> whether it left the u64 range].
AddSmall(a, small) ==
    LET s0 == a[1] + small
        c0 == s0 \div LimbBase
        s1 == a[2] + c0
        c1 == s1 \div LimbBase
        s2 == a[3] + c1
        c2 == s2 \div LimbBase
        s3 == a[4] + c2
        c3 == s3 \div LimbBase
    IN  [val |-> <<s0 % LimbBase, s1 % LimbBase, s2 % LimbBase, s3 % LimbBase>>,
         overflow |-> c3 > 0]

\* ------------------------------------------------------------ types
Execute == "Execute"
MapMemory == "MapMemory"
HandleExit == "HandleExit"
Halt == "Halt"

Capabilities == {Execute, MapMemory, HandleExit, Halt}

\* CPUState: 31 general-purpose registers, pc, sp, pstate.
GprIndex == 0 .. 30

CPUState(gpr, pc, sp, pstate) == [gpr |-> gpr, pc |-> pc, sp |-> sp, pstate |-> pstate]

CPUDefault == CPUState([i \in GprIndex |-> U64Zero], U64Zero, U64Zero, U64Zero)

\* VMState
Created == [tag |-> "Created"]
Runnable(cpu) == [tag |-> "Runnable", cpu |-> cpu]
Trapped(reason, cpu) == [tag |-> "Trapped", reason |-> reason, cpu |-> cpu]
Halted == [tag |-> "Halted"]

\* ExitReason
Hypercall(nr, args) == [kind |-> "Hypercall", nr |-> nr, args |-> args]
MemoryFault(gpa, write) == [kind |-> "MemoryFault", gpa |-> gpa, write |-> write]
InstructionAbort(gpa) == [kind |-> "InstructionAbort", gpa |-> gpa]
SystemRegister(reg, write) == [kind |-> "SystemRegister", reg |-> reg, write |-> write]
WFI == [kind |-> "WFI"]
Exception(vector) == [kind |-> "Exception", vector |-> vector]
Cancelled == [kind |-> "Cancelled"]

\* ExitAction
Resume(cpu) == [kind |-> "Resume", cpu |-> cpu]
ActHalt == [kind |-> "Halt"]
InjectException(vector, cpu) == [kind |-> "InjectException", vector |-> vector, cpu |-> cpu]

\* Result<T>: Ok(value), Err(Error), or the call unwinding with a panic.
Ok(v) == [kind |-> "Ok", val |-> v]
Unit == "()"
\* Option<T>
None == [some |-> FALSE]
Some(x) == [some |-> TRUE, val |-> x]
VMNotFound(vmid) == [kind |-> "Err", err |-> "VMNotFound", vmid |-> vmid]
InvalidVMState(vmid) == [kind |-> "Err", err |-> "InvalidVMState", vmid |-> vmid]
CapabilityError(msg) == [kind |-> "Err", err |-> "CapabilityError", msg |-> msg]
MemoryError(msg) == [kind |-> "Err", err |-> "MemoryError", msg |-> msg]
Panic(msg) == [kind |-> "Panic", msg |-> msg]

\* ------------------------------------------------------------ state
VARIABLES
    vms,              \* SystemState.vms: VMID -> VMState
    caps,             \* SystemState.caps: VMID -> set of Capability
    exits,            \* SystemState.exits: FIFO of <<VMID, ExitReason>>
    next_vmid,        \* SystemState's VMID counter
    mem,              \* SystemState's memory map: VMID -> sequence of regions
    overflow_checks,  \* the build: TRUE when rustc compiles `+=` with overflow checks
    last,             \* the last public call: [op, vmid, res]
    returned,         \* the VMIDs create_vm has returned so far
    traps,            \* the <<vmid, reason, cpu>> of the trap_vm calls put on record
    pending           \* the <<vmid, action>> the driver's pump returned and has yet to apply

vars == <<vms, caps, exits, next_vmid, mem, overflow_checks, last, returned, traps, pending>>

\* The SystemState value as one record, the `state` argument of every operation.
SystemState ==
    [vms |-> vms, caps |-> caps, exits |-> exits, next_vmid |-> next_vmid, mem |-> mem]

\* The result of an operation taking `&mut SystemState`: the state it leaves
\* and the value it returns.
Out(s, r) == [s |-> s, r |-> r]

\* HashMap insert / remove on a function with a finite domain.
Insert(m, k, v) == [x \in DOMAIN m \cup {k} |-> IF x = k THEN v ELSE m[x]]
Remove(m, k) == [x \in DOMAIN m \ {k} |-> m[x]]

\* ------------------------------------------- SystemState (types.rs)
\* SystemState::new(): empty maps, empty queue, counter at its first value.
FirstVMID == 1

NewSystemState ==
    [vms |-> <<>>, caps |-> <<>>, exits |-> <<>>, next_vmid |-> FirstVMID, mem |-> <<>>]

\* Mutant of allocate_vmid: the lowest VMID that is free at the moment.
allocate_vmid_lowest_free(s) ==
    Out([s EXCEPT !.next_vmid = s.next_vmid + 1],
        CHOOSE v \in FirstVMID .. s.next_vmid :
            v \notin DOMAIN s.vms /\ \A w \in FirstVMID .. (v - 1) : w \in DOMAIN s.vms)

\* allocate_vmid(): returns the counter and advances it.
allocate_vmid(s) == Out([s EXCEPT !.next_vmid = s.next_vmid + 1], s.next_vmid)

\* has_capability(v, c): total, false when v has no capability entry.
has_capability(s, vmid, cap) == vmid \in DOMAIN s.caps /\ cap \in s.caps[vmid]

\* grant_capability(v, c): idempotent insertion, creating v's set when absent;
\* does not check that v exists.
grant_capability(s, vmid, cap) ==
    [s EXCEPT !.caps = Insert(s.caps, vmid,
                              (IF vmid \in DOMAIN s.caps THEN s.caps[vmid] ELSE {}) \cup {cap})]

\* ------------------------------------------------- VMManager (vm.rs)
\* Mutant of create_vm: the grant of Halt is missing.
create_vm_without_halt(s) ==
    LET a == allocate_vmid(s)
        vmid == a.r
        s1 == [a.s EXCEPT !.vms = Insert(a.s.vms, vmid, Created)]
        s2 == grant_capability(s1, vmid, Execute)
        s3 == grant_capability(s2, vmid, MapMemory)
        s4 == grant_capability(s3, vmid, HandleExit)
    IN  Out(s4, Ok(vmid))

create_vm(s) ==
    LET a == allocate_vmid(s)
        vmid == a.r
        s1 == [a.s EXCEPT !.vms = Insert(a.s.vms, vmid, Created)]
        s2 == grant_capability(s1, vmid, Execute)
        s3 == grant_capability(s2, vmid, MapMemory)
        s4 == grant_capability(s3, vmid, HandleExit)
        s5 == grant_capability(s4, vmid, Halt)
    IN  Out(s5, Ok(vmid))

\* Mutant of initialize_vm: the Execute check is missing.
initialize_vm_unchecked(s, vmid, cpu_state) ==
    IF vmid \notin DOMAIN s.vms THEN Out(s, VMNotFound(vmid))
    ELSE IF s.vms[vmid].tag # "Created" THEN Out(s, InvalidVMState(vmid))
    ELSE Out([s EXCEPT !.vms = Insert(s.vms, vmid, Runnable(cpu_state))], Ok(Unit))

\* Mutant of initialize_vm: initialize on a Runnable VM is a redundant no-op.
initialize_vm_idempotent(s, vmid, cpu_state) ==
    IF vmid \notin DOMAIN s.vms THEN Out(s, VMNotFound(vmid))
    ELSE IF s.vms[vmid].tag = "Runnable" THEN Out(s, Ok(Unit))
    ELSE IF s.vms[vmid].tag # "Created" THEN Out(s, InvalidVMState(vmid))
    ELSE IF ~has_capability(s, vmid, Execute)
         THEN Out(s, CapabilityError("Execute capability required"))
    ELSE Out([s EXCEPT !.vms = Insert(s.vms, vmid, Runnable(cpu_state))], Ok(Unit))

initialize_vm(s, vmid, cpu_state) ==
    IF vmid \notin DOMAIN s.vms THEN Out(s, VMNotFound(vmid))
    ELSE IF s.vms[vmid].tag # "Created" THEN Out(s, InvalidVMState(vmid))
    ELSE IF ~has_capability(s, vmid, Execute)
         THEN Out(s, CapabilityError("Execute capability required"))
    ELSE Out([s EXCEPT !.vms = Insert(s.vms, vmid, Runnable(cpu_state))], Ok(Unit))

\* Mutant of trap_vm: the exit is pushed at the front of the queue.
trap_vm_push_front(s, vmid, exit_reason, cpu_state) ==
    IF vmid \notin DOMAIN s.vms THEN Out(s, VMNotFound(vmid))
    ELSE Out([s EXCEPT !.vms = Insert(s.vms, vmid, Trapped(exit_reason, cpu_state)),
                       !.exits = <<<<vmid, exit_reason>>>> \o s.exits],
             Ok(Unit))

trap_vm(s, vmid, exit_reason, cpu_state) ==
    IF vmid \notin DOMAIN s.vms THEN Out(s, VMNotFound(vmid))
    ELSE Out([s EXCEPT !.vms = Insert(s.vms, vmid, Trapped(exit_reason, cpu_state)),
                       !.exits = Append(s.exits, <<vmid, exit_reason>>)],
             Ok(Unit))

\* Mutant of resume_vm: the transition is written before Execute is verified.
resume_vm_inserts_first(s, vmid, cpu_state) ==
    IF vmid \notin DOMAIN s.vms THEN Out(s, VMNotFound(vmid))
    ELSE IF s.vms[vmid].tag # "Trapped" THEN Out(s, InvalidVMState(vmid))
    ELSE LET s1 == [s EXCEPT !.vms = Insert(s.vms, vmid, Runnable(cpu_state))]
         IN  IF ~has_capability(s, vmid, Execute)
             THEN Out(s1, CapabilityError("Execute capability required"))
             ELSE Out(s1, Ok(Unit))

resume_vm(s, vmid, cpu_state) ==
    IF vmid \notin DOMAIN s.vms THEN Out(s, VMNotFound(vmid))
    ELSE IF s.vms[vmid].tag # "Trapped" THEN Out(s, InvalidVMState(vmid))
    ELSE IF ~has_capability(s, vmid, Execute)
         THEN Out(s, CapabilityError("Execute capability required"))
    ELSE Out([s EXCEPT !.vms = Insert(s.vms, vmid, Runnable(cpu_state))], Ok(Unit))

\* Mutant of halt_vm: a VM that is already Halted is refused.
halt_vm_once(s, vmid) ==
    IF vmid \notin DOMAIN s.vms THEN Out(s, VMNotFound(vmid))
    ELSE IF ~has_capability(s, vmid, Halt)
         THEN Out(s, CapabilityError("Halt capability required"))
    ELSE IF s.vms[vmid].tag = "Halted" THEN Out(s, InvalidVMState(vmid))
    ELSE Out([s EXCEPT !.vms = Insert(s.vms, vmid, Halted)], Ok(Unit))

\* Mutant of halt_vm: the Halt check is missing.
halt_vm_unchecked(s, vmid) ==
    IF vmid \notin DOMAIN s.vms THEN Out(s, VMNotFound(vmid))
    ELSE Out([s EXCEPT !.vms = Insert(s.vms, vmid, Halted)], Ok(Unit))

halt_vm(s, vmid) ==
    IF vmid \notin DOMAIN s.vms THEN Out(s, VMNotFound(vmid))
    ELSE IF ~has_capability(s, vmid, Halt)
         THEN Out(s, CapabilityError("Halt capability required"))
    ELSE Out([s EXCEPT !.vms = Insert(s.vms, vmid, Halted)], Ok(Unit))

get_vm_state(s, vmid) ==
    IF vmid \notin DOMAIN s.vms THEN VMNotFound(vmid) ELSE Ok(s.vms[vmid])

\* Mutant of destroy_vm: the capability entry is left behind.
destroy_vm_keeps_caps(s, vmid) ==
    IF vmid \notin DOMAIN s.vms THEN Out(s, VMNotFound(vmid))
    ELSE Out([s EXCEPT !.vms = Remove(s.vms, vmid)], Ok(Unit))

destroy_vm(s, vmid) ==
    IF vmid \notin DOMAIN s.vms THEN Out(s, VMNotFound(vmid))
    ELSE Out([s EXCEPT !.vms = Remove(s.vms, vmid), !.caps = Remove(s.caps, vmid)],
             Ok(Unit))

\* --------------------------------- CapabilityManager (capability.rs)
check_capability(s, vmid, cap) == has_capability(s, vmid, cap)

cm_grant_capability(s, vmid, cap) ==
    IF vmid \notin DOMAIN s.vms THEN Out(s, VMNotFound(vmid))
    ELSE Out(grant_capability(s, vmid, cap), Ok(Unit))

\* `if let Some(caps) = state.caps.get_mut(&vmid) { caps.remove(&cap); }`
remove_cap(s, vmid, cap) ==
    IF vmid \in DOMAIN s.caps
    THEN [s EXCEPT !.caps = Insert(s.caps, vmid, s.caps[vmid] \ {cap})]
    ELSE s

\* Mutant of revoke_capability: revoking from an unknown VM is a silent no-op.
revoke_capability_lenient(s, vmid, cap) == Out(remove_cap(s, vmid, cap), Ok(Unit))

revoke_capability(s, vmid, cap) ==
    IF vmid \notin DOMAIN s.vms THEN Out(s, VMNotFound(vmid))
    ELSE Out(remove_cap(s, vmid, cap), Ok(Unit))

require_capability(s, vmid, cap) ==
    IF ~has_capability(s, vmid, cap)
    THEN CapabilityError(<<"lacks required capability", vmid, cap>>)
    ELSE Ok(Unit)

\* The Vec is in HashSet iteration order, which is unspecified: the set stands for it.
get_capabilities(s, vmid) ==
    IF vmid \notin DOMAIN s.vms THEN VMNotFound(vmid)
    ELSE Ok(IF vmid \in DOMAIN s.caps THEN s.caps[vmid] ELSE {})

\* Mutant of transfer_capability: the target is granted the capability before
\* the source is checked for it.
transfer_capability_grant_first(s, source_vmid, target_vmid, cap, move_capability) ==
    IF source_vmid \notin DOMAIN s.vms THEN Out(s, VMNotFound(source_vmid))
    ELSE IF target_vmid \notin DOMAIN s.vms THEN Out(s, VMNotFound(target_vmid))
    ELSE LET s1 == grant_capability(s, target_vmid, cap)
         IN  IF ~has_capability(s, source_vmid, cap)
             THEN Out(s1, CapabilityError(<<"Source VM does not have capability",
                                           source_vmid, cap>>))
             ELSE Out(IF move_capability THEN remove_cap(s1, source_vmid, cap) ELSE s1,
                      Ok(Unit))

transfer_capability(s, source_vmid, target_vmid, cap, move_capability) ==
    IF source_vmid \notin DOMAIN s.vms THEN Out(s, VMNotFound(source_vmid))
    ELSE IF target_vmid \notin DOMAIN s.vms THEN Out(s, VMNotFound(target_vmid))
    ELSE IF ~has_capability(s, source_vmid, cap)
         THEN Out(s, CapabilityError(<<"Source VM does not have capability", source_vmid, cap>>))
    ELSE LET s1 == grant_capability(s, target_vmid, cap)
         IN  Out(IF move_capability THEN remove_cap(s1, source_vmid, cap) ELSE s1, Ok(Unit))

\* --------------------------------------------- ExitHandler (exit.rs)
\* `new_state.pc += 4` on a clone of cpu_state. With overflow checks (the dev
\* and test profiles) a sum past u64::MAX panics; without them (the release
\* profile) it wraps. Ok(cpu') or Panic.
advance_pc(cpu_state) ==
    LET sum == AddSmall(cpu_state.pc, 4)
    IN  IF sum.overflow /\ overflow_checks
        THEN Panic("attempt to add with overflow")
        ELSE Ok([cpu_state EXCEPT !.pc = sum.val])

handle_hypercall(s, vmid, nr, args, cpu_state) ==
    IF nr = 0
    THEN LET new_state == advance_pc(cpu_state)
         IN  IF new_state.kind = "Panic" THEN new_state ELSE Ok(Resume(new_state.val))
    ELSE IF nr = 1 THEN Ok(ActHalt)
    ELSE Ok(InjectException(0, cpu_state))

handle_memory_fault(s, vmid, gpa, write, cpu_state) == Ok(InjectException(1, cpu_state))

handle_instruction_abort(s, vmid, gpa, cpu_state) == Ok(InjectException(2, cpu_state))

handle_system_register(s, vmid, reg, write, cpu_state) == Ok(InjectException(0, cpu_state))

handle_wfi(s, vmid, cpu_state) ==
    LET new_state == advance_pc(cpu_state)
    IN  IF new_state.kind = "Panic" THEN new_state ELSE Ok(Resume(new_state.val))

handle_exception(s, vmid, vector, cpu_state) == Ok(InjectException(vector, cpu_state))

\* Mutant of handle_cancelled: the VM is resumed where it stopped.
handle_cancelled_resumes(s, vmid, cpu_state) == Ok(Resume(cpu_state))

handle_cancelled(s, vmid, cpu_state) == Ok(ActHalt)

\* Mutant of handle_exit: it also insists that the VM is Trapped, and so reads
\* the VM's lifecycle state.
handle_exit_trapped_only(s, vmid, exit_reason, cpu_state) ==
    IF vmid \notin DOMAIN s.vms THEN VMNotFound(vmid)
    ELSE IF ~has_capability(s, vmid, HandleExit)
         THEN CapabilityError("HandleExit capability required")
    ELSE IF s.vms[vmid].tag # "Trapped" THEN InvalidVMState(vmid)
    ELSE CASE exit_reason.kind = "Hypercall" ->
                handle_hypercall(s, vmid, exit_reason.nr, exit_reason.args, cpu_state)
           [] exit_reason.kind = "MemoryFault" ->
                handle_memory_fault(s, vmid, exit_reason.gpa, exit_reason.write, cpu_state)
           [] exit_reason.kind = "InstructionAbort" ->
                handle_instruction_abort(s, vmid, exit_reason.gpa, cpu_state)
           [] exit_reason.kind = "SystemRegister" ->
                handle_system_register(s, vmid, exit_reason.reg, exit_reason.write, cpu_state)
           [] exit_reason.kind = "WFI" -> handle_wfi(s, vmid, cpu_state)
           [] exit_reason.kind = "Exception" ->
                handle_exception(s, vmid, exit_reason.vector, cpu_state)
           [] exit_reason.kind = "Cancelled" -> handle_cancelled(s, vmid, cpu_state)

handle_exit(s, vmid, exit_reason, cpu_state) ==
    IF vmid \notin DOMAIN s.vms THEN VMNotFound(vmid)
    ELSE IF ~has_capability(s, vmid, HandleExit)
         THEN CapabilityError("HandleExit capability required")
    ELSE CASE exit_reason.kind = "Hypercall" ->
                handle_hypercall(s, vmid, exit_reason.nr, exit_reason.args, cpu_state)
           [] exit_reason.kind = "MemoryFault" ->
                handle_memory_fault(s, vmid, exit_reason.gpa, exit_reason.write, cpu_state)
           [] exit_reason.kind = "InstructionAbort" ->
                handle_instruction_abort(s, vmid, exit_reason.gpa, cpu_state)
           [] exit_reason.kind = "SystemRegister" ->
                handle_system_register(s, vmid, exit_reason.reg, exit_reason.write, cpu_state)
           [] exit_reason.kind = "WFI" -> handle_wfi(s, vmid, cpu_state)
           [] exit_reason.kind = "Exception" ->
                handle_exception(s, vmid, exit_reason.vector, cpu_state)
           [] exit_reason.kind = "Cancelled" -> handle_cancelled(s, vmid, cpu_state)

\* Mutant of process_next_exit: the queue is popped at the back.
process_next_exit_lifo(s) ==
    IF s.exits = <<>> THEN Out(s, Ok(None))
    ELSE LET vmid == s.exits[Len(s.exits)][1]
             exit_reason == s.exits[Len(s.exits)][2]
             s1 == [s EXCEPT !.exits = SubSeq(s.exits, 1, Len(s.exits) - 1)]
             vm_state == get_vm_state(s1, vmid)
         IN  IF vm_state.kind # "Ok" THEN Out(s1, vm_state)
             ELSE IF vm_state.val.tag # "Trapped" THEN Out(s1, InvalidVMState(vmid))
             ELSE LET action == handle_exit(s1, vmid, exit_reason, vm_state.val.cpu)
                  IN  IF action.kind # "Ok" THEN Out(s1, action)
                      ELSE Out(s1, Ok(Some(<<vmid, action.val>>)))

\* Mutant of process_next_exit: the exit of a VM that is not Trapped is dropped
\* silently.
process_next_exit_skips_untrapped(s) ==
    IF s.exits = <<>> THEN Out(s, Ok(None))
    ELSE LET vmid == Head(s.exits)[1]
             exit_reason == Head(s.exits)[2]
             s1 == [s EXCEPT !.exits = Tail(s.exits)]
             vm_state == get_vm_state(s1, vmid)
         IN  IF vm_state.kind # "Ok" THEN Out(s1, vm_state)
             ELSE IF vm_state.val.tag # "Trapped" THEN Out(s1, Ok(None))
             ELSE LET action == handle_exit(s1, vmid, exit_reason, vm_state.val.cpu)
                  IN  IF action.kind # "Ok" THEN Out(s1, action)
                      ELSE Out(s1, Ok(Some(<<vmid, action.val>>)))

\* Mutant of process_next_exit: the exit is popped only when an action is returned.
process_next_exit_pops_on_success(s) ==
    IF s.exits = <<>> THEN Out(s, Ok(None))
    ELSE LET vmid == Head(s.exits)[1]
             exit_reason == Head(s.exits)[2]
             s1 == [s EXCEPT !.exits = Tail(s.exits)]
             vm_state == get_vm_state(s, vmid)
         IN  IF vm_state.kind # "Ok" THEN Out(s, vm_state)
             ELSE IF vm_state.val.tag # "Trapped" THEN Out(s, InvalidVMState(vmid))
             ELSE LET action == handle_exit(s, vmid, exit_reason, vm_state.val.cpu)
                  IN  IF action.kind = "Err" THEN Out(s, action)
                      ELSE IF action.kind # "Ok" THEN Out(s1, action)
                      ELSE Out(s1, Ok(Some(<<vmid, action.val>>)))

\* pop_front first; every later `?`, `return Err` or panic leaves the queue popped.
process_next_exit(s) ==
    IF s.exits = <<>> THEN Out(s, Ok(None))
    ELSE LET vmid == Head(s.exits)[1]
             exit_reason == Head(s.exits)[2]
             s1 == [s EXCEPT !.exits = Tail(s.exits)]
             vm_state == get_vm_state(s1, vmid)
         IN  IF vm_state.kind # "Ok" THEN Out(s1, vm_state)
             ELSE IF vm_state.val.tag # "Trapped" THEN Out(s1, InvalidVMState(vmid))
             ELSE LET action == handle_exit(s1, vmid, exit_reason, vm_state.val.cpu)
                  IN  IF action.kind # "Ok" THEN Out(s1, action)
                      ELSE Out(s1, Ok(Some(<<vmid, action.val>>)))

\* Mutant of apply_exit_action: an injected exception halts the VM.
apply_exit_action_inject_halts(s, vmid, action) ==
    CASE action.kind = "Resume" -> resume_vm(s, vmid, action.cpu)
      [] action.kind = "Halt" -> halt_vm(s, vmid)
      [] action.kind = "InjectException" -> halt_vm(s, vmid)

apply_exit_action(s, vmid, action) ==
    CASE action.kind = "Resume" -> resume_vm(s, vmid, action.cpu)
      [] action.kind = "Halt" -> halt_vm(s, vmid)
      [] action.kind = "InjectException" -> resume_vm(s, vmid, action.cpu)

\* ------------------------------------------- MemoryManager (memory.rs)
\* memory.rs is not part of the source tree at hand: the memory manager is
\* modelled from section 4.4 of the written specification.
Region(vmid, guest_base, length, host_backing, protection) ==
    [vmid |-> vmid, guest_base |-> guest_base, length |-> length,
     host_backing |-> host_backing, protection |-> protection]

\* The byte ranges [a, a + la) and [b, b + lb) share a byte.
Overlaps(a, la, b, lb) == a < b + lb /\ b < a + la

\* regions(v): v's regions in insertion order.
regions(s, vmid) == IF vmid \in DOMAIN s.mem THEN s.mem[vmid] ELSE <<>>

GuestOverlap(s, vmid, gpa, length) ==
    \E i \in 1 .. Len(regions(s, vmid)) :
        Overlaps(gpa, length, regions(s, vmid)[i].guest_base, regions(s, vmid)[i].length)

HostOverlap(s, vmid, host_backing, length) ==
    \E w \in DOMAIN s.mem \ {vmid} : \E i \in 1 .. Len(s.mem[w]) :
        Overlaps(host_backing, length, s.mem[w][i].host_backing, s.mem[w][i].length)

\* Mutant of map: the host-backing ranges of the other VMs are not looked at.
map_guest_check_only(s, vmid, gpa, length, host_backing, protection) ==
    IF vmid \notin DOMAIN s.vms THEN Out(s, VMNotFound(vmid))
    ELSE IF ~has_capability(s, vmid, MapMemory)
         THEN Out(s, CapabilityError("MapMemory capability required"))
    ELSE IF length = 0 THEN Out(s, MemoryError("zero length"))
    ELSE IF GuestOverlap(s, vmid, gpa, length)
         THEN Out(s, MemoryError("guest-physical overlap"))
    ELSE Out([s EXCEPT !.mem = Insert(s.mem, vmid,
                  Append(regions(s, vmid),
                         Region(vmid, gpa, length, host_backing, protection)))],
             Ok(Unit))

\* map: the region is appended when every precondition holds. Aliasing of host
\* backing within one VM is left to the implementation and is accepted here,
\* the policy under which more states are reachable.
map(s, vmid, gpa, length, host_backing, protection) ==
    IF vmid \notin DOMAIN s.vms THEN Out(s, VMNotFound(vmid))
    ELSE IF ~has_capability(s, vmid, MapMemory)
         THEN Out(s, CapabilityError("MapMemory capability required"))
    ELSE IF length = 0 THEN Out(s, MemoryError("zero length"))
    ELSE IF GuestOverlap(s, vmid, gpa, length)
         THEN Out(s, MemoryError("guest-physical overlap"))
    ELSE IF HostOverlap(s, vmid, host_backing, length)
         THEN Out(s, MemoryError("host-backing overlap"))
    ELSE Out([s EXCEPT !.mem = Insert(s.mem, vmid,
                  Append(regions(s, vmid),
                         Region(vmid, gpa, length, host_backing, protection)))],
             Ok(Unit))

\* unmap: removes the region of v with exactly this base and length.
unmap(s, vmid, gpa, length) ==
    IF vmid \notin DOMAIN s.vms THEN Out(s, VMNotFound(vmid))
    ELSE IF ~has_capability(s, vmid, MapMemory)
         THEN Out(s, CapabilityError("MapMemory capability required"))
    ELSE LET rs == regions(s, vmid)
             hit == {i \in 1 .. Len(rs) : rs[i].guest_base = gpa /\ rs[i].length = length}
         IN  IF hit = {} THEN Out(s, MemoryError("unknown region"))
             ELSE Out([s EXCEPT !.mem = Insert(s.mem, vmid,
                           SelectSeq(rs, LAMBDA r : ~(r.guest_base = gpa /\ r.length = length)))],
                      Ok(Unit))

\* release_all: v has no regions afterwards.
release_all(s, vmid) ==
    IF vmid \notin DOMAIN s.vms THEN Out(s, VMNotFound(vmid))
    ELSE Out([s EXCEPT !.mem = Remove(s.mem, vmid)], Ok(Unit))

\* ------------------------------------------------------------ inputs
\* The VMIDs the allocator hands out within a bound of n VMs. A caller may pass
\* any of them: already created, not yet created, or destroyed.
VMIDsUpTo(n) == FirstVMID .. (FirstVMID + n - 1)

\* pc = 0x1000, as in test_hvf_cpu_state; a CPU state whose pc is 4 below 2^64.
CpuA == [CPUDefault EXCEPT !.pc = U64(4096, 0, 0, 0)]

CpuB == CPUState([i \in GprIndex |-> IF i = 0 THEN U64(7, 0, 0, 0) ELSE U64Zero],
                 U64(LimbBase - 4, LimbBase - 1, LimbBase - 1, LimbBase - 1),
                 U64(512, 0, 0, 0), U64(5, 0, 0, 0))

Args0 == [i \in 1 .. 6 |-> 0]

\* Actions a driver passes to apply for VMs trapped with the given CPU states:
\* Halt, Resume past the trapping instruction, and a data abort injected.
ActionsFor(cpus) ==
    {ActHalt} \cup {Resume([c EXCEPT !.pc = AddSmall(c.pc, 4).val]) : c \in cpus}
              \cup {InjectException(1, c) : c \in cpus}

\* ----------------------------------------------------------- actions
\* One public call: the SystemState it leaves and the record of the call.
Commit(out, call) ==
    /\ vms' = out.s.vms
    /\ caps' = out.s.caps
    /\ exits' = out.s.exits
    /\ next_vmid' = out.s.next_vmid
    /\ mem' = out.s.mem
    /\ last' = call
    /\ returned' = IF call.op = "create" THEN returned \cup {call.res.val} ELSE returned
    /\ UNCHANGED <<overflow_checks, traps, pending>>

Call(op, vmid, res) == [op |-> op, vmid |-> vmid, res |-> res]

Create(n) ==
    /\ next_vmid < FirstVMID + n
    /\ LET out == create_vm(SystemState)
       IN  Commit(out, Call("create", out.r.val, out.r))

Initialize(ids, cpus) ==
    \E vmid \in ids, cpu \in cpus :
        LET out == initialize_vm(SystemState, vmid, cpu)
        IN  Commit(out, Call("initialize", vmid, out.r))

Trap(ids, reasons, cpus) ==
    /\ Len(exits) < MaxQueue
    /\ \E vmid \in ids, reason \in reasons, cpu \in cpus :
        LET out == trap_vm(SystemState, vmid, reason, cpu)
        IN  Commit(out, Call("trap", vmid, out.r))

\* trap_vm, with the arguments of every successful call put on record.
TrapOnRecord(ids, reasons, cpus) ==
    /\ Len(exits) < MaxQueue
    /\ \E vmid \in ids, reason \in reasons, cpu \in cpus :
        LET out == trap_vm(SystemState, vmid, reason, cpu)
        IN  /\ vms' = out.s.vms
            /\ caps' = out.s.caps
            /\ exits' = out.s.exits
            /\ next_vmid' = out.s.next_vmid
            /\ mem' = out.s.mem
            /\ last' = Call("trap", vmid, out.r)
            /\ traps' = IF out.r.kind = "Ok" THEN traps \cup {<<vmid, reason, cpu>>} ELSE traps
            /\ UNCHANGED <<overflow_checks, returned, pending>>

ResumeVM(ids, cpus) ==
    \E vmid \in ids, cpu \in cpus :
        LET out == resume_vm(SystemState, vmid, cpu)
        IN  Commit(out, Call("resume", vmid, out.r))

HaltVM(ids) ==
    \E vmid \in ids :
        LET out == halt_vm(SystemState, vmid)
        IN  Commit(out, Call("halt", vmid, out.r))

Destroy(ids) ==
    \E vmid \in ids :
        LET out == destroy_vm(SystemState, vmid)
        IN  Commit(out, Call("destroy", vmid, out.r))

Grant(ids, cs) ==
    \E vmid \in ids, cap \in cs :
        LET out == cm_grant_capability(SystemState, vmid, cap)
        IN  Commit(out, Call("grant", vmid, out.r))

Revoke(ids, cs) ==
    \E vmid \in ids, cap \in cs :
        LET out == revoke_capability(SystemState, vmid, cap)
        IN  Commit(out, Call("revoke", vmid, out.r))

Transfer(ids, cs) ==
    \E src \in ids, dst \in ids, cap \in cs, move \in BOOLEAN :
        LET out == transfer_capability(SystemState, src, dst, cap, move)
        IN  Commit(out, [op |-> "transfer", vmid |-> src, dst |-> dst, cap |-> cap,
                         move |-> move, res |-> out.r])

\* SystemState::grant_capability called directly: the primitive of the state
\* container, which does not look at the VM-state map.
RawGrant(ids, cs) ==
    \E vmid \in ids, cap \in cs :
        Commit(Out(grant_capability(SystemState, vmid, cap), Ok(Unit)),
               Call("state_grant", vmid, Ok(Unit)))

\* get_vm_state and get_capabilities take &SystemState.
GetState(ids) ==
    \E vmid \in ids :
        Commit(Out(SystemState, get_vm_state(SystemState, vmid)),
               Call("get_state", vmid, get_vm_state(SystemState, vmid)))

GetAll(ids) ==
    \E vmid \in ids :
        Commit(Out(SystemState, get_capabilities(SystemState, vmid)),
               Call("get_all", vmid, get_capabilities(SystemState, vmid)))

Map(ids, gpas, lengths, backings) ==
    \E vmid \in ids, gpa \in gpas, length \in lengths, host_backing \in backings :
        /\ Len(regions(SystemState, vmid)) < MaxRegions
        /\ LET out == map(SystemState, vmid, gpa, length, host_backing, "RW")
           IN  Commit(out, [op |-> "map", vmid |-> vmid, gpa |-> gpa, length |-> length,
                            host_backing |-> host_backing, res |-> out.r])

Unmap(ids, gpas, lengths) ==
    \E vmid \in ids, gpa \in gpas, length \in lengths :
        LET out == unmap(SystemState, vmid, gpa, length)
        IN  Commit(out, Call("unmap", vmid, out.r))

ReleaseAll(ids) ==
    \E vmid \in ids :
        LET out == release_all(SystemState, vmid)
        IN  Commit(out, Call("release_all", vmid, out.r))

\* handle_exit takes &SystemState: only the record of the call changes.
HandleExitCall(ids, reasons, cpus) ==
    \E vmid \in ids, reason \in reasons, cpu \in cpus :
        /\ last' = [op |-> "handle_exit", vmid |-> vmid, reason |-> reason, cpu |-> cpu,
                    res |-> handle_exit(SystemState, vmid, reason, cpu)]
        /\ UNCHANGED <<vms, caps, exits, next_vmid, mem, overflow_checks, returned, traps,
                       pending>>

Pump ==
    LET out == process_next_exit(SystemState)
    IN  Commit(out, [op |-> "pump",
                     vmid |-> IF exits = <<>> THEN 0 ELSE Head(exits)[1],
                     popped |-> IF exits = <<>> THEN <<>> ELSE <<Head(exits)>>,
                     res |-> out.r])

\* The exit whose action the driver is applying: the one the preceding call, a
\* pump, popped when it returned <<vmid, action>>; empty for any other apply.
PumpedExit(vmid, action) ==
    IF last.op = "pump" /\ last.res = Ok(Some(<<vmid, action>>)) THEN last.popped ELSE <<>>

Apply(ids, actions) ==
    \E vmid \in ids, action \in actions :
        LET out == apply_exit_action(SystemState, vmid, action)
        IN  Commit(out, [op |-> "apply", vmid |-> vmid, action |-> action,
                         popped |-> PumpedExit(vmid, action), res |-> out.r])

\* trap_vm called by the execution oracle: on a VM it was handed as Runnable,
\* each <<vmid, reason, cpu>> once.
OracleTrap(ids, reasons, cpus) ==
    /\ Len(exits) < MaxQueue
    /\ \E vmid \in ids, reason \in reasons, cpu \in cpus :
        /\ vmid \in DOMAIN vms
        /\ vms[vmid].tag = "Runnable"
        /\ <<vmid, reason, cpu>> \notin traps
        /\ TrapOnRecord({vmid}, {reason}, {cpu})

\* The dispatch loop, first half: process_next_exit, whose (vmid, action) the
\* driver keeps for apply_exit_action.
DriverPump ==
    /\ pending = <<>>
    /\ LET out == process_next_exit(SystemState)
       IN  /\ vms' = out.s.vms
           /\ caps' = out.s.caps
           /\ exits' = out.s.exits
           /\ next_vmid' = out.s.next_vmid
           /\ mem' = out.s.mem
           /\ last' = [op |-> "pump",
                       vmid |-> IF exits = <<>> THEN 0 ELSE Head(exits)[1],
                       popped |-> IF exits = <<>> THEN <<>> ELSE <<Head(exits)>>,
                       res |-> out.r]
           /\ pending' = IF out.r.kind = "Ok" /\ out.r.val.some
                          THEN <<out.r.val.val>> ELSE <<>>
           /\ UNCHANGED <<overflow_checks, returned, traps>>

\* The dispatch loop, second half: apply_exit_action on what the pump returned.
DriverApply ==
    /\ pending # <<>>
    /\ LET vmid == pending[1][1]
           action == pending[1][2]
           out == apply_exit_action(SystemState, vmid, action)
       IN  /\ vms' = out.s.vms
           /\ caps' = out.s.caps
           /\ exits' = out.s.exits
           /\ next_vmid' = out.s.next_vmid
           /\ mem' = out.s.mem
           /\ last' = [op |-> "apply", vmid |-> vmid, action |-> action,
                       popped |-> <<>>, res |-> out.r]
           /\ pending' = <<>>
           /\ UNCHANGED <<overflow_checks, returned, traps>>

\* ----------------------------------------------------- specifications
Init ==
    /\ vms = NewSystemState.vms
    /\ caps = NewSystemState.caps
    /\ exits = NewSystemState.exits
    /\ next_vmid = NewSystemState.next_vmid
    /\ mem = NewSystemState.mem
    /\ overflow_checks \in BOOLEAN
    /\ last = Call("new", 0, Ok(Unit))
    /\ returned = {}
    /\ traps = {}
    /\ pending = <<>>

\* Spec: the whole public surface on one VM, before, during and after its life,
\* with every capability and a CPU state on each side of the pc overflow.
SoloIds == VMIDsUpTo(SoloVMs)

SoloCPUs == {CpuA, CpuB}

SoloReasons == {WFI, Hypercall(1, Args0), MemoryFault(4096, FALSE), Cancelled}

Next ==
    \/ Create(SoloVMs)
    \/ Initialize(SoloIds, SoloCPUs)
    \/ Trap(SoloIds, SoloReasons, SoloCPUs)
    \/ ResumeVM(SoloIds, SoloCPUs)
    \/ HaltVM(SoloIds)
    \/ Destroy(SoloIds)
    \/ Grant(SoloIds, Capabilities)
    \/ Revoke(SoloIds, Capabilities)
    \/ Transfer(SoloIds, Capabilities)
    \/ HandleExitCall(SoloIds, SoloReasons, SoloCPUs)
    \/ Pump
    \/ Apply(SoloIds, ActionsFor(SoloCPUs))

Spec == Init /\ [][Next]_vars

\* SpecDispatch: handle_exit called with every exit reason constructor, several
\* payloads of each, and CPU states around the pc overflow, on a VM in each
\* lifecycle state, with and without HandleExit and Execute.
Args1 == [i \in 1 .. 6 |-> i]

CpuEdge == [CpuA EXCEPT !.pc = U64(LimbBase - 5, LimbBase - 1, LimbBase - 1, LimbBase - 1)]

CpuMax == [CpuB EXCEPT !.pc = U64Max]

DispatchCPUs == {CPUDefault, CpuA, CpuB, CpuEdge, CpuMax}

DispatchReasons ==
    {Hypercall(nr, args) : nr \in {0, 1, 2, 42}, args \in {Args0, Args1}}
    \cup {MemoryFault(gpa, write) : gpa \in {0, 4096}, write \in BOOLEAN}
    \cup {InstructionAbort(gpa) : gpa \in {0, 4096}}
    \cup {SystemRegister(reg, write) : reg \in {0, 3}, write \in BOOLEAN}
    \cup {WFI, Cancelled}
    \cup {Exception(vector) : vector \in {0, 1, 5}}

NextDispatch ==
    \/ Create(SoloVMs)
    \/ Initialize(SoloIds, {CpuA})
    \/ Trap(SoloIds, {WFI}, {CpuA})
    \/ HaltVM(SoloIds)
    \/ Destroy(SoloIds)
    \/ Grant(SoloIds, {HandleExit, Execute})
    \/ Revoke(SoloIds, {HandleExit, Execute})
    \/ HandleExitCall(SoloIds, DispatchReasons, DispatchCPUs)

SpecDispatch == Init /\ [][NextDispatch]_vars

\* SpecPair: two VMs trapping into one exit queue, the pump and apply, and the
\* calls that make a pump fail (HandleExit revoked, the VM halted or destroyed).
PairIds == VMIDsUpTo(MaxVMs)

PairCPUs == {CpuA, CpuB}

PairReasons == {WFI, Hypercall(1, Args0)}

NextPair ==
    \/ Create(MaxVMs)
    \/ Initialize(PairIds, {CpuA})
    \/ Trap(PairIds, PairReasons, PairCPUs)
    \/ Destroy(PairIds)
    \/ Revoke(PairIds, {HandleExit})
    \/ Pump
    \/ Apply(PairIds, ActionsFor(PairCPUs))

SpecPair == Init /\ [][NextPair]_vars

\* SpecCaps: the capability manager on VMs that come and go: grant, revoke and
\* transfer of two of the capabilities between every pair of VMIDs, existing or
\* not, copy and move.
NextCaps ==
    \/ Create(MaxVMs)
    \/ Destroy(PairIds)
    \/ Grant(PairIds, {Execute, Halt})
    \/ Revoke(PairIds, {Execute, Halt})
    \/ Transfer(PairIds, {Execute, Halt})

SpecCaps == Init /\ [][NextCaps]_vars

\* SpecUnknown: every operation that takes a VMID, called on VMIDs that were
\* never created, that exist, and that were destroyed, with capabilities recorded
\* for them through the state container or not.
NextUnknown ==
    \/ Create(MaxVMs)
    \/ Destroy(PairIds)
    \/ RawGrant(PairIds, {Execute, HandleExit})
    \/ Initialize(PairIds, {CpuA})
    \/ Trap(PairIds, {WFI}, {CpuA})
    \/ ResumeVM(PairIds, {CpuA})
    \/ HaltVM(PairIds)
    \/ GetState(PairIds)
    \/ GetAll(PairIds)
    \/ Grant(PairIds, {Execute})
    \/ Revoke(PairIds, {Execute, Halt})
    \/ Transfer(PairIds, {Execute})
    \/ HandleExitCall(PairIds, {WFI}, {CpuA})

SpecUnknown == Init /\ [][NextUnknown]_vars

\* SpecMemory: two VMs mapping, unmapping and releasing regions whose guest
\* ranges and host-backing ranges abut, overlap and coincide, with MapMemory
\* revoked and granted again, and VMs destroyed with and without a release.
MemGpas == {0, 1}

MemLengths == {0, 1, 2}

MemBackings == {0, 1}

NextMemory ==
    \/ Create(MaxVMs)
    \/ Destroy(PairIds)
    \/ Grant(PairIds, {MapMemory})
    \/ Revoke(PairIds, {MapMemory})
    \/ Map(PairIds, MemGpas, MemLengths, MemBackings)
    \/ Unmap(PairIds, MemGpas, MemLengths)
    \/ ReleaseAll(PairIds)

SpecMemory == Init /\ [][NextMemory]_vars

\* SpecApply: apply called with every kind of action, several exception
\* vectors and CPU states, on a VM in each lifecycle state, with and without
\* Execute and Halt, whether or not a pump returned the action.
ApplyActions ==
    {ActHalt} \cup {Resume(c) : c \in {CpuA, CpuB}}
              \cup {InjectException(vector, c) : vector \in {0, 1, 2, 5}, c \in {CpuA, CpuB}}

NextApply ==
    \/ Create(SoloVMs)
    \/ Initialize(SoloIds, {CpuA})
    \/ Trap(SoloIds, {WFI, MemoryFault(4096, FALSE)}, {CpuA})
    \/ HaltVM(SoloIds)
    \/ Destroy(SoloIds)
    \/ Grant(SoloIds, {Execute, Halt})
    \/ Revoke(SoloIds, {Execute, Halt})
    \/ Pump
    \/ Apply(SoloIds, ApplyActions)

SpecApply == Init /\ [][NextApply]_vars

\* SpecDestroy: two VMs taken through the lifecycle and stripped of any of their
\* capabilities, and destroyed at any point.
NextDestroy ==
    \/ Create(MaxVMs)
    \/ Initialize(PairIds, {CpuA})
    \/ Trap(PairIds, {WFI}, {CpuA})
    \/ HaltVM(PairIds)
    \/ Revoke(PairIds, Capabilities)
    \/ Destroy(PairIds)

SpecDestroy == Init /\ [][NextDestroy]_vars

\* SpecPairing: one VM that traps for two reasons with two CPU states, is
\* resumed by the driver or directly, and traps again, with the pump and apply.
PairingReasons == {WFI, MemoryFault(4096, FALSE)}

PairingCPUs == {CPUDefault, CpuA}

NextPairing ==
    \/ Create(SoloVMs)
    \/ Initialize(SoloIds, {CPUDefault})
    \/ TrapOnRecord(SoloIds, PairingReasons, PairingCPUs)
    \/ ResumeVM(SoloIds, {CPUDefault})
    \/ Pump
    \/ Apply(SoloIds, ActionsFor(PairingCPUs))

SpecPairing == Init /\ [][NextPairing]_vars

\* SpecProgress: the dispatch loop of a fair driver over two VMs that the oracle
\* traps only while Runnable, with their default capabilities and no direct
\* resume, halt or destroy.
ProgressReasons == {WFI, Cancelled}

ProgressCPUs == {CpuA, CpuB}

NextProgress ==
    \/ Create(MaxVMs)
    \/ Initialize(PairIds, {CPUDefault})
    \/ OracleTrap(PairIds, ProgressReasons, ProgressCPUs)
    \/ DriverPump
    \/ DriverApply

SpecProgress ==
    Init /\ [][NextProgress]_vars /\ WF_vars(DriverPump) /\ WF_vars(DriverApply)

\* ------------------------------------------------------ claim helpers
IsErr(res, e) == res.kind = "Err" /\ res.err = e

\* The SystemState fields, without the record of the last call.
sys == <<vms, caps, exits, next_vmid, mem>>

\* This step is a call of `op` on `vmid` (last' records the call a step makes).
Calls(op, vmid) == last'.op = op /\ last'.vmid = vmid

\* ------------------------------------------------------------ claims
\* C1 (as claimed): once a VM's state is Halted, no step that keeps the VM in the
\* VM-state map takes it out of Halted.
C1_HaltedIsTerminal ==
    [][\A v \in DOMAIN vms :
          (vms[v].tag = "Halted" /\ v \in DOMAIN vms') => vms'[v].tag = "Halted"]_vars

\* C2 (as claimed): initialize, trap and resume called on a Halted VM all fail
\* with InvalidVMState.
C2_HaltedRejectsTransitions ==
    [][\A v \in DOMAIN vms :
          (vms[v].tag = "Halted"
           /\ (Calls("initialize", v) \/ Calls("trap", v) \/ Calls("resume", v)))
          => IsErr(last'.res, "InvalidVMState")]_vars

\* C3 (as claimed): every VMID that is a key of the capability map or of the
\* memory map, or the VMID of a pending exit, is a key of the VM-state map.
C3_Existence ==
    /\ DOMAIN caps \subseteq DOMAIN vms
    /\ DOMAIN mem \subseteq DOMAIN vms
    /\ \A i \in 1 .. Len(exits) : exits[i][1] \in DOMAIN vms

\* The capability each gated operation requires.
GatedOps == {<<"initialize", Execute>>, <<"resume", Execute>>,
             <<"halt", Halt>>, <<"handle_exit", HandleExit>>}

\* The lifecycle states in which the operation's state check lets it through.
Admits(op, tag) ==
    CASE op = "initialize" -> tag = "Created"
      [] op = "resume" -> tag = "Trapped"
      [] OTHER -> TRUE

\* C4 (as claimed): a gated operation called on an existing VM that lacks the
\* required capability fails with CapabilityError and changes nothing.
C4_GateAlwaysCapabilityError ==
    [][\A v \in DOMAIN vms : \A g \in GatedOps :
          (Calls(g[1], v) /\ ~has_capability(SystemState, v, g[2]))
          => (IsErr(last'.res, "CapabilityError") /\ UNCHANGED sys)]_vars

\* C4 (amended): a gated operation called on an existing VM that lacks the
\* required capability fails and changes nothing; the error is CapabilityError
\* when the VM's lifecycle state admits the operation, and InvalidVMState when
\* it does not (the state check comes first).
C4_GateFails ==
    [][\A v \in DOMAIN vms : \A g \in GatedOps :
          (Calls(g[1], v) /\ ~has_capability(SystemState, v, g[2]))
          => /\ UNCHANGED sys
             /\ IF Admits(g[1], vms[v].tag)
                THEN IsErr(last'.res, "CapabilityError")
                ELSE IsErr(last'.res, "InvalidVMState")]_vars

\* C4 witness: initialize was refused for want of Execute on a Created VM.
C4_Witness ==
    /\ last.op = "initialize"
    /\ IsErr(last.res, "CapabilityError")
    /\ last.vmid \in DOMAIN vms
    /\ vms[last.vmid].tag = "Created"
    /\ ~has_capability(SystemState, last.vmid, Execute)

\* C5: a step that moves a VM into Runnable is taken while the VM holds Execute,
\* a step that moves it into Halted while it holds Halt, and a handle_exit (direct
\* or inside the pump) that returns an action while it holds HandleExit.
C5_CapabilitySoundness ==
    [][\A v \in DOMAIN vms :
          /\ (v \in DOMAIN vms' /\ vms'[v] # vms[v] /\ vms'[v].tag = "Runnable")
             => has_capability(SystemState, v, Execute)
          /\ (v \in DOMAIN vms' /\ vms'[v] # vms[v] /\ vms'[v].tag = "Halted")
             => has_capability(SystemState, v, Halt)
          /\ (Calls("handle_exit", v) /\ last'.res.kind = "Ok")
             => has_capability(SystemState, v, HandleExit)
          /\ (Calls("pump", v) /\ last'.res.kind = "Ok" /\ last'.res.val.some)
             => has_capability(SystemState, v, HandleExit)]_vars

\* C5 witness: apply of a Resume action has put a Trapped VM into Runnable.
C5_Witness ==
    /\ last.op = "apply"
    /\ last.res.kind = "Ok"
    /\ last.action.kind = "Resume"
    /\ vms[last.vmid] = Runnable(last.action.cpu)

\* The last call was handle_exit on a VM that exists and holds HandleExit.
HandledExit ==
    /\ last.op = "handle_exit"
    /\ last.vmid \in DOMAIN vms
    /\ has_capability(SystemState, last.vmid, HandleExit)

\* C6 (as claimed): handle_exit on a VM that exists and holds HandleExit returns
\* Ok(action) for every exit reason and every CPU state.
C6_Totality == HandledExit => last.res.kind = "Ok"

\* SystemState values the program reaches, against which a result is compared:
\* they differ in v's lifecycle state, in the other VMs, in the capabilities
\* other than HandleExit and in the exit queue.
AltCreated == create_vm(NewSystemState).s
AltRunnable == initialize_vm(AltCreated, FirstVMID, CpuB).s
AltTrapped == trap_vm(AltRunnable, FirstVMID, Cancelled, CPUDefault).s
AltHalted == halt_vm(AltTrapped, FirstVMID).s
AltTwoVMs == trap_vm(create_vm(AltTrapped).s, FirstVMID + 1, WFI, CpuA).s
AltNoExecute == revoke_capability(revoke_capability(AltTwoVMs, FirstVMID, Execute).s,
                                  FirstVMID, Halt).s
AltNoHandleExit == revoke_capability(AltRunnable, FirstVMID, HandleExit).s
AltOtherOnly == destroy_vm(AltTwoVMs, FirstVMID).s
AltOtherNoHandleExit == revoke_capability(AltTwoVMs, FirstVMID + 1, HandleExit).s

AltStates == {NewSystemState, AltCreated, AltRunnable, AltTrapped, AltHalted, AltTwoVMs,
              AltNoExecute, AltNoHandleExit, AltOtherOnly, AltOtherNoHandleExit}

\* C7: the result of handle_exit(v, reason, cpu) is the same in any two system
\* states that agree on whether v exists and on whether v holds HandleExit.
C7_Determinism ==
    last.op = "handle_exit" =>
        \A alt \in AltStates :
            ((last.vmid \in DOMAIN alt.vms) = (last.vmid \in DOMAIN vms)
             /\ has_capability(alt, last.vmid, HandleExit)
                = has_capability(SystemState, last.vmid, HandleExit))
            => handle_exit(alt, last.vmid, last.reason, last.cpu) = last.res

\* C7 witness: handle_exit has returned an action for a VM that is not Trapped
\* and has lost Execute, with an exit pending.
C7_Witness ==
    /\ HandledExit
    /\ last.res.kind = "Ok"
    /\ vms[last.vmid].tag = "Halted"
    /\ ~has_capability(SystemState, last.vmid, Execute)
    /\ exits # <<>>

\* cpu with pc + 4, the sum taken modulo 2^64.
PcPlus4(cpu) == [cpu EXCEPT !.pc = AddSmall(cpu.pc, 4).val]

\* The dispatch table of the specification.
DispatchTable(reason, cpu) ==
    CASE reason.kind = "Hypercall" /\ reason.nr = 0 -> Resume(PcPlus4(cpu))
      [] reason.kind = "Hypercall" /\ reason.nr = 1 -> ActHalt
      [] reason.kind = "Hypercall" /\ reason.nr \notin {0, 1} -> InjectException(0, cpu)
      [] reason.kind = "MemoryFault" -> InjectException(1, cpu)
      [] reason.kind = "InstructionAbort" -> InjectException(2, cpu)
      [] reason.kind = "SystemRegister" -> InjectException(0, cpu)
      [] reason.kind = "WFI" -> Resume(PcPlus4(cpu))
      [] reason.kind = "Exception" -> InjectException(reason.vector, cpu)
      [] reason.kind = "Cancelled" -> ActHalt

\* C8 (as claimed): on a VM that exists and holds HandleExit, handle_exit returns
\* exactly the action the dispatch table gives for the exit reason.
C8_DispatchTable == HandledExit => last.res = Ok(DispatchTable(last.reason, last.cpu))

\* C9 (as claimed): for WFI and Hypercall nr=0, handle_exit returns Resume(cpu')
\* with cpu'.pc = cpu.pc + 4 as a u64 and every other field as in cpu, also
\* when pc is within 4 of the 64-bit maximum.
C9_PcAdvance ==
    (HandledExit
     /\ (last.reason.kind = "WFI" \/ (last.reason.kind = "Hypercall" /\ last.reason.nr = 0)))
    => /\ last.res.kind = "Ok"
       /\ last.res.val.kind = "Resume"
       /\ last.res.val.cpu.pc = AddSmall(last.cpu.pc, 4).val
       /\ last.res.val.cpu.gpr = last.cpu.gpr
       /\ last.res.val.cpu.sp = last.cpu.sp
       /\ last.res.val.cpu.pstate = last.cpu.pstate

\* The pump has returned `res` for the head <<v, r>> of the queue: v itself and
\* the action the dispatch table derives from r and v's CPU state.
ReturnsActionFor(res, head) ==
    /\ res.kind = "Ok"
    /\ res.val.some
    /\ head[1] \in DOMAIN vms
    /\ vms[head[1]].tag = "Trapped"
    /\ res.val.val = <<head[1], DispatchTable(head[2], vms[head[1]].cpu)>>

\* C10 (as claimed): successive pumps return, in the order of the traps, the VMID
\* of each trap and the action derived from its reason; no exit is skipped: every
\* pump of a non-empty queue that returns at all (the pc overflow panic aside)
\* returns the action for the head of the queue.
C10_NoExitSkipped ==
    [][(last'.op = "pump" /\ exits # <<>> /\ last'.res.kind # "Panic")
       => (exits' = Tail(exits) /\ ReturnsActionFor(last'.res, Head(exits)))]_vars

\* C10 (amended): a successful trap appends its <<v, r>> at the tail of the queue;
\* a pump of a non-empty queue removes exactly the head, and when it returns an
\* action it is the one for that head; when it fails or panics the head is gone
\* all the same; no other call changes the queue.
C10_FifoOrder ==
    [][/\ (last'.op = "trap" /\ last'.res.kind = "Ok")
          => /\ vms'[last'.vmid].tag = "Trapped"
             /\ exits' = Append(exits, <<last'.vmid, vms'[last'.vmid].reason>>)
       /\ (last'.op = "pump" /\ exits # <<>>)
          => /\ exits' = Tail(exits)
             /\ last'.popped = <<Head(exits)>>
             /\ (last'.res.kind = "Ok" => ReturnsActionFor(last'.res, Head(exits)))
       /\ (last'.op \notin {"trap", "pump"} \/ (last'.op = "trap" /\ last'.res.kind = "Err"))
          => exits' = exits]_vars

\* C10 witness: two VMs have trapped, the pump has returned the action of the
\* first trap, and the other VM's exit is now at the head of the queue.
C10_Witness ==
    /\ last.op = "pump"
    /\ last.res.kind = "Ok"
    /\ last.res.val.some
    /\ exits # <<>>
    /\ Head(exits)[1] # last.vmid
    /\ Head(exits)[2] # last.popped[1][2]

\* C11 (as claimed): the pump that follows trap(v, Cancelled, cpu) returns
\* <<v, Halt>>, and the apply of the action pumped for a Cancelled exit of v
\* leaves v in Halted, whatever v's capabilities and whatever else is pending.
C11_CancelledAlwaysHalts ==
    [][\A v \in DOMAIN vms :
          /\ (/\ last.op = "trap" /\ last.vmid = v /\ last.res.kind = "Ok"
              /\ vms[v] = Trapped(Cancelled, vms[v].cpu)
              /\ last'.op = "pump")
             => last'.res = Ok(Some(<<v, ActHalt>>))
          /\ (Calls("apply", v) /\ last'.popped = <<<<v, Cancelled>>>>)
             => (v \in DOMAIN vms' /\ vms'[v] = Halted)]_vars

\* C11 (amended): a pump whose head is <<v, Cancelled>> returns <<v, Halt>> when
\* v exists, is Trapped and holds HandleExit, and otherwise fails with VMNotFound,
\* InvalidVMState or CapabilityError, in that order; it changes no VM. The apply
\* of the pumped Halt leaves v in Halted when v holds Halt, and otherwise fails
\* with CapabilityError and changes nothing.
C11_CancelledHaltsWhenPermitted ==
    [][/\ (last'.op = "pump" /\ exits # <<>> /\ Head(exits)[2] = Cancelled)
          => LET v == Head(exits)[1]
             IN  /\ UNCHANGED <<vms, caps>>
                 /\ IF v \notin DOMAIN vms THEN IsErr(last'.res, "VMNotFound")
                    ELSE IF vms[v].tag # "Trapped" THEN IsErr(last'.res, "InvalidVMState")
                    ELSE IF ~has_capability(SystemState, v, HandleExit)
                         THEN IsErr(last'.res, "CapabilityError")
                    ELSE last'.res = Ok(Some(<<v, ActHalt>>))
       /\ (last'.op = "apply" /\ last'.popped # <<>> /\ last'.popped[1][2] = Cancelled)
          => LET v == last'.vmid
             IN  /\ last'.action = ActHalt
                 /\ v \in DOMAIN vms
                 /\ IF has_capability(SystemState, v, Halt)
                    THEN /\ last'.res = Ok(Unit)
                         /\ vms' = Insert(vms, v, Halted)
                         /\ UNCHANGED <<caps, exits, next_vmid>>
                    ELSE IsErr(last'.res, "CapabilityError") /\ UNCHANGED sys]_vars

\* C11 witness: the Halt pumped for a Cancelled exit has been applied and the VM
\* is Halted, with another exit still pending.
C11_Witness ==
    /\ last.op = "apply"
    /\ last.popped = <<<<last.vmid, Cancelled>>>>
    /\ last.res.kind = "Ok"
    /\ vms[last.vmid] = Halted
    /\ exits # <<>>

\* cs, a capability map, records capability c for v.
Holds(cs, v, c) == v \in DOMAIN cs /\ c \in cs[v]

\* This step is transfer(src, dst, C, move) between existing VMs, src holding C.
TransfersHeld ==
    /\ last'.op = "transfer"
    /\ last'.vmid \in DOMAIN vms
    /\ last'.dst \in DOMAIN vms
    /\ Holds(caps, last'.vmid, last'.cap)

\* C12 (as claimed): transfer(src, dst, C, move) between existing VMs, src holding
\* C, succeeds; afterwards dst holds C, src holds C iff move is false, and no
\* other capability of any VM has changed.
C12_TransferPostcondition ==
    [][TransfersHeld
       => /\ last'.res = Ok(Unit)
          /\ Holds(caps', last'.dst, last'.cap)
          /\ Holds(caps', last'.vmid, last'.cap) <=> ~last'.move
          /\ \A v \in DOMAIN vms, c \in Capabilities :
                (c # last'.cap \/ v \notin {last'.vmid, last'.dst})
                => (Holds(caps', v, c) <=> Holds(caps, v, c))
          /\ UNCHANGED <<vms, exits, next_vmid>>]_vars

\* C13 (as claimed): transfer(v, v, C, move) on a VM v that holds C succeeds and
\* leaves the system as grant(v, C) leaves it, with v holding C, for both values
\* of move.
C13_SelfTransferIsGrant ==
    [][(TransfersHeld /\ last'.dst = last'.vmid)
       => /\ last'.res = cm_grant_capability(SystemState, last'.vmid, last'.cap).r
          /\ <<vms', caps', exits', next_vmid'>>
             = LET g == cm_grant_capability(SystemState, last'.vmid, last'.cap).s
               IN  <<g.vms, g.caps, g.exits, g.next_vmid>>
          /\ Holds(caps', last'.vmid, last'.cap)]_vars

\* C14: transfer fails exactly when src is unknown (VMNotFound), dst is unknown
\* (VMNotFound) or src lacks C (CapabilityError), and then nothing has changed,
\* dst's capabilities included; when it succeeds, the grant to dst and, for a
\* move, the removal from src have both been made.
C14_TransferAtomic ==
    [][last'.op = "transfer"
       => LET src == last'.vmid
              dst == last'.dst
              c == last'.cap
          IN  /\ (src \notin DOMAIN vms \/ dst \notin DOMAIN vms)
                 => (IsErr(last'.res, "VMNotFound") /\ UNCHANGED sys)
              /\ (src \in DOMAIN vms /\ dst \in DOMAIN vms /\ ~Holds(caps, src, c))
                 => (IsErr(last'.res, "CapabilityError") /\ UNCHANGED sys)
              /\ TransfersHeld
                 => /\ last'.res = Ok(Unit)
                    /\ LET granted == grant_capability(SystemState, dst, c)
                       IN  caps' = IF last'.move THEN remove_cap(granted, src, c).caps
                                   ELSE granted.caps
                    /\ UNCHANGED <<vms, exits, next_vmid>>]_vars

\* C14 witness: a transfer between two existing VMs has failed because the
\* source lacks the capability, and the target, which lacked it, still does.
C14_Witness ==
    /\ last.op = "transfer"
    /\ IsErr(last.res, "CapabilityError")
    /\ last.dst # last.vmid
    /\ {last.vmid, last.dst} \subseteq DOMAIN vms
    /\ ~Holds(caps, last.vmid, last.cap)
    /\ ~Holds(caps, last.dst, last.cap)

\* C15: the VMID create returns is no key of the VM-state map at the time of the
\* call and is none of the VMIDs create returned before, destroyed or not.
C15_VMIDFreshness ==
    [][last'.op = "create"
       => /\ last'.res.kind = "Ok"
          /\ last'.res.val \notin DOMAIN vms
          /\ last'.res.val \notin returned
          /\ last'.res.val \in DOMAIN vms']_vars

\* C15 witness: the first VM was destroyed and create has since returned
\* another VMID.
C15_Witness ==
    /\ last.op = "create"
    /\ FirstVMID \in returned
    /\ FirstVMID \notin DOMAIN vms
    /\ last.res.val # FirstVMID

\* C16: create succeeds; the VMID v it returns is a new key of the VM-state map,
\* in state Created, with exactly {Execute, MapMemory, HandleExit, Halt}; the
\* state and capabilities of every other VM and the exit queue are unchanged.
C16_CreatePostcondition ==
    [][last'.op = "create"
       => /\ last'.res.kind = "Ok"
          /\ LET v == last'.res.val
             IN  /\ v \notin DOMAIN vms
                 /\ vms' = Insert(vms, v, Created)
                 /\ v \notin DOMAIN caps
                 /\ caps' = Insert(caps, v, {Execute, MapMemory, HandleExit, Halt})
          /\ exits' = exits]_vars

\* C16 witness: create has returned a second VM while the first one is Trapped
\* without HandleExit and its exit is pending.
C16_Witness ==
    /\ last.op = "create"
    /\ last.res.val # FirstVMID
    /\ vms[last.res.val] = Created
    /\ FirstVMID \in DOMAIN vms
    /\ vms[FirstVMID].tag = "Trapped"
    /\ ~Holds(caps, FirstVMID, HandleExit)
    /\ exits # <<>>

\* C17: initialize on an existing VM that is not Created, and resume on an
\* existing VM that is not Trapped, fail with InvalidVMState and change nothing,
\* with or without Execute.
C17_IllegalTransitions ==
    [][\A v \in DOMAIN vms :
          ((Calls("initialize", v) /\ vms[v].tag # "Created")
           \/ (Calls("resume", v) /\ vms[v].tag # "Trapped"))
          => (last'.res = InvalidVMState(v) /\ UNCHANGED sys)]_vars

\* C17 witness: initialize was refused on a Runnable VM that holds Execute.
C17_Witness ==
    /\ last.op = "initialize"
    /\ IsErr(last.res, "InvalidVMState")
    /\ last.vmid \in DOMAIN vms
    /\ vms[last.vmid].tag = "Runnable"
    /\ Holds(caps, last.vmid, Execute)

\* The operations that take one VMID.
VMIDOps == {"initialize", "trap", "resume", "halt", "destroy", "get_state",
            "grant", "revoke", "get_all", "handle_exit"}

\* C18: every operation called with a VMID that is no key of the VM-state map
\* fails with VMNotFound of that VMID and changes nothing, whatever capabilities
\* are recorded for the VMID; transfer names its source when that is unknown and
\* its target otherwise.
C18_UnknownVMID ==
    [][/\ (last'.op \in VMIDOps /\ last'.vmid \notin DOMAIN vms)
          => (last'.res = VMNotFound(last'.vmid) /\ UNCHANGED sys)
       /\ (last'.op = "transfer" /\ last'.vmid \notin DOMAIN vms)
          => (last'.res = VMNotFound(last'.vmid) /\ UNCHANGED sys)
       /\ (last'.op = "transfer" /\ last'.vmid \in DOMAIN vms /\ last'.dst \notin DOMAIN vms)
          => (last'.res = VMNotFound(last'.dst) /\ UNCHANGED sys)]_vars

\* C18 witness: handle_exit has answered VMNotFound for a destroyed VM for which
\* HandleExit is recorded.
C18_Witness ==
    /\ last.op = "handle_exit"
    /\ IsErr(last.res, "VMNotFound")
    /\ last.vmid \in returned
    /\ last.vmid \notin DOMAIN vms
    /\ Holds(caps, last.vmid, HandleExit)

\* In the memory map m no two regions of one VM overlap in guest-physical space
\* and no region of one VM shares a host-backing byte with a region of another.
NonInterference(m) ==
    /\ \A v \in DOMAIN m : \A i, j \in 1 .. Len(m[v]) :
          i # j => ~Overlaps(m[v][i].guest_base, m[v][i].length,
                            m[v][j].guest_base, m[v][j].length)
    /\ \A v, w \in DOMAIN m : \A i \in 1 .. Len(m[v]), j \in 1 .. Len(m[w]) :
          v # w => ~Overlaps(m[v][i].host_backing, m[v][i].length,
                            m[w][j].host_backing, m[w][j].length)

\* The memory map with the region of this map call appended to v's sequence.
WithMapped(call) ==
    Insert(mem, call.vmid,
           Append(regions(SystemState, call.vmid),
                  Region(call.vmid, call.gpa, call.length, call.host_backing, "RW")))

C20_TrapOnlyFromRunnable ==
    [][\A v \in DOMAIN vms :
          Calls("trap", v)
          => IF vms[v].tag = "Runnable"
             THEN last'.res = Ok(Unit) /\ vms'[v].tag = "Trapped"
             ELSE vms'[v] = vms[v]]_vars

\* The SystemState fields of a state record, in the order of sys.
FieldsOf(s) == <<s.vms, s.caps, s.exits, s.next_vmid, s.mem>>

\* What the lifecycle call an action stands for does in the current state.
LifecycleCall(vmid, action) ==
    IF action.kind = "Halt" THEN halt_vm(SystemState, vmid)
    ELSE resume_vm(SystemState, vmid, action.cpu)

\* C21: apply(v, action) returns what resume(v, cpu) does for Resume(cpu) and for
\* InjectException{vector, cpu}, and what halt(v) does for Halt, and leaves the
\* state they leave: Runnable(cpu) on a Trapped VM holding Execute, Halted on a
\* VM holding Halt, and on an error the same error and no change.
C21_ApplyDispatches ==
    [][last'.op = "apply"
       => LET v == last'.vmid
              a == last'.action
          IN  /\ last'.res = LifecycleCall(v, a).r
              /\ sys' = FieldsOf(LifecycleCall(v, a).s)
              /\ last'.res.kind \in {"Ok", "Err"}
              /\ last'.res.kind = "Err" => UNCHANGED sys
              /\ (/\ a.kind \in {"Resume", "InjectException"}
                  /\ v \in DOMAIN vms
                  /\ vms[v].tag = "Trapped"
                  /\ Holds(caps, v, Execute))
                 => (last'.res = Ok(Unit) /\ vms' = Insert(vms, v, Runnable(a.cpu)))
              /\ (a.kind = "Halt" /\ v \in DOMAIN vms /\ Holds(caps, v, Halt))
                 => (last'.res = Ok(Unit) /\ vms' = Insert(vms, v, Halted))]_vars

\* C21 witness: apply of InjectException with vector 5 has put a Trapped VM
\* into Runnable with the carried CPU state, which is not the trapped one.
C21_Witness ==
    /\ last.op = "apply"
    /\ last.action = InjectException(5, CpuB)
    /\ last.res = Ok(Unit)
    /\ vms[last.vmid] = Runnable(CpuB)

\* C22: a pump of an empty queue returns Ok(None) and changes nothing; a pump
\* whose head is <<v, r>> returns an action, for v, only when v is Trapped, and
\* fails with InvalidVMState when v exists in any other state; no pump changes a
\* VM state or a capability.
C22_PumpPreconditions ==
    [][last'.op = "pump"
       => /\ UNCHANGED <<vms, caps, next_vmid, mem>>
          /\ exits = <<>> => (last'.res = Ok(None) /\ UNCHANGED sys)
          /\ exits # <<>>
             => LET v == Head(exits)[1]
                IN  /\ last'.res.kind = "Ok"
                       => /\ last'.res.val.some
                          /\ last'.res.val.val[1] = v
                          /\ v \in DOMAIN vms
                          /\ vms[v].tag = "Trapped"
                    /\ (v \in DOMAIN vms /\ vms[v].tag # "Trapped")
                       => last'.res = InvalidVMState(v)]_vars

\* C22 witness: the pump has refused the exit of a VM that was resumed directly
\* and is Runnable, holding HandleExit.
C22_Witness ==
    /\ last.op = "pump"
    /\ last.popped # <<>>
    /\ last.res = InvalidVMState(last.vmid)
    /\ last.vmid \in DOMAIN vms
    /\ vms[last.vmid].tag = "Runnable"
    /\ Holds(caps, last.vmid, HandleExit)

C24_HaltFromAnyState ==
    [][\A v \in DOMAIN vms :
          (Calls("halt", v) /\ Holds(caps, v, Halt))
          => /\ last'.res = Ok(Unit)
             /\ vms' = Insert(vms, v, Halted)
             /\ UNCHANGED <<caps, exits, next_vmid, mem>>
             /\ vms[v] = Halted => UNCHANGED sys]_vars

\* C24 witness: halt has succeeded on a VM whose exit is still pending.
C24_Witness ==
    /\ last.op = "halt"
    /\ last.res = Ok(Unit)
    /\ vms[last.vmid] = Halted
    /\ \E i \in 1 .. Len(exits) : exits[i][1] = last.vmid

\* The positions of v's entries in the pending-exit queue.
EntriesOf(v) == {i \in 1 .. Len(exits) : exits[i][1] = v}

\* C25 (as claimed): every pending exit <<v, r>> refers to a VM that is Trapped,
\* and every Trapped VM has a pending exit.
C25_QueueStateAgreement ==
    /\ \A i \in 1 .. Len(exits) :
          exits[i][1] \in DOMAIN vms /\ vms[exits[i][1]].tag = "Trapped"
    /\ \A v \in DOMAIN vms : vms[v].tag = "Trapped" => EntriesOf(v) # {}

\* C25 (amended): when a VM is Trapped and has pending exits, the newest of
\* them carries the VM's current exit reason. (An entry may refer to a VM that
\* is no longer Trapped, and a Trapped VM may have no entry left.)
C25_NewestEntryAgrees ==
    \A v \in DOMAIN vms :
        (vms[v].tag = "Trapped" /\ EntriesOf(v) # {})
        => LET newest == CHOOSE i \in EntriesOf(v) : \A j \in EntriesOf(v) : j <= i
           IN  exits[newest][2] = vms[v].reason

\* C25 witness: a VM trapped twice, for different reasons, with both exits
\* pending: the older entry disagrees with the VM's state, the newer agrees.
C25_Witness ==
    /\ Len(exits) = 2
    /\ exits[1][1] = exits[2][1]
    /\ exits[1][2] # exits[2][2]
    /\ exits[1][1] \in DOMAIN vms
    /\ vms[exits[1][1]].tag = "Trapped"
    /\ vms[exits[1][1]].reason = exits[2][2]

\* C26 (as claimed): the action the pump returns for v is the dispatch-table
\* result for a reason and a CPU state that one trap(v, r, cpu) call supplied
\* together.
C26_TrapPairing ==
    [][(last'.op = "pump" /\ last'.res.kind = "Ok" /\ last'.res.val.some)
       => \E t \in traps :
             /\ t[1] = last'.res.val.val[1]
             /\ last'.res.val.val[2] = DispatchTable(t[2], t[3])]_vars

\* C27 (as claimed): a pump that fails leaves the system state unchanged; the
\* exit at the head of the queue is still pending.
C27_FailedPumpKeepsExit ==
    [][(last'.op = "pump" /\ last'.res.kind = "Err") => UNCHANGED sys]_vars

\* C27 (amended): a pump fails only on a non-empty queue, with VMNotFound when
\* the VM of the head entry does not exist, InvalidVMState when it exists and is
\* not Trapped, CapabilityError when it is Trapped and lacks HandleExit; the
\* failed pump has removed the head entry and changed nothing else.
C27_FailedPumpConsumesExit ==
    [][(last'.op = "pump" /\ last'.res.kind = "Err")
       => /\ exits # <<>>
          /\ exits' = Tail(exits)
          /\ last'.popped = <<Head(exits)>>
          /\ UNCHANGED <<vms, caps, next_vmid, mem>>
          /\ LET v == Head(exits)[1]
             IN  IF v \notin DOMAIN vms THEN last'.res = VMNotFound(v)
                 ELSE IF vms[v].tag # "Trapped" THEN last'.res = InvalidVMState(v)
                 ELSE /\ IsErr(last'.res, "CapabilityError")
                      /\ ~has_capability(SystemState, v, HandleExit)]_vars

\* C27 witness: the pump has failed with CapabilityError on a VM that is still
\* Trapped, and the only exit that was pending is gone from the queue.
C27_Witness ==
    /\ last.op = "pump"
    /\ IsErr(last.res, "CapabilityError")
    /\ last.popped # <<>>
    /\ last.vmid \in DOMAIN vms
    /\ vms[last.vmid].tag = "Trapped"
    /\ exits = <<>>

\* The lifecycle and capability operations of C28.
AtomicOps == {"initialize", "trap", "resume", "halt", "destroy",
              "grant", "revoke", "transfer", "apply"}

\* C28: a lifecycle or capability operation that returns an error leaves the
\* VM-state map, the capability map, the exit queue and the VMID counter as they
\* were before the call.
C28_FailureAtomicity ==
    [][(last'.op \in AtomicOps /\ last'.res.kind = "Err")
       => UNCHANGED <<vms, caps, exits, next_vmid>>]_vars

\* C28 witness: a resume was refused for want of Execute after both of its other
\* checks had passed, on a Trapped VM whose exit is pending.
C28_Witness ==
    /\ last.op = "resume"
    /\ IsErr(last.res, "CapabilityError")
    /\ last.vmid \in DOMAIN vms
    /\ vms[last.vmid].tag = "Trapped"
    /\ exits # <<>>

\* C29 (as claimed): the driver's pump and apply calls never fail, the exit
\* queue is empty again and again (for good once the oracle's traps are spent),
\* and every Trapped VM becomes Runnable or Halted.
C29_Progress ==
    /\ [](last.op \in {"pump", "apply"} => last.res.kind = "Ok")
    /\ []<>(exits = <<>>)
    /\ \A v \in PairIds :
          (v \in DOMAIN vms /\ vms[v].tag = "Trapped")
          ~> (v \in DOMAIN vms /\ vms[v].tag \in {"Runnable", "Halted"})

====
